---- MODULE Spec2Model ----
(***************************************************************************)
(* Model of src/tauri/src/context.rs: the shared session context of the   *)
(* wallet backend (Context / ContextInner / Wallet / Network).             *)
(*                                                                         *)
(* Every operation of ContextInner is a small program run by a task that   *)
(* holds the guard of Context::lock.  Step(s, l) is one step of that       *)
(* program on the session state s with the call's locals l; Run(s, l) is   *)
(* the whole call.  A panic (an unwrap on None/Err) unwinds the task: the  *)
(* call ends with res = "panic", keeping what it had already written, and  *)
(* the guard is dropped (futures_util's Mutex does not poison).            *)
(***************************************************************************)
EXTENDS Integers, Sequences, FiniteSets, TLC

\* ------------------------------------------------------------- bounds
\* Calls (guard acquisitions and reloads) in one behaviour.
MaxCalls == 3
\* Tasks holding a clone of the Context.
NumTasks == 2

Tasks == 1..NumTasks
\* SocketAddr of the peers that connect.
Addrs == {"p1", "p2"}

\* ------------------------------------------------------------ Network
Network(name, chain_id, rpc_url) ==
  [name |-> name, chain_id |-> chain_id, rpc_url |-> rpc_url,
   currency |-> "ETH", decimals |-> 18]

mainnet == Network("mainnet", 1, "https://eth-mainnet.g.alchemy.com/v2/")
goerli == Network("goerli", 5, "https://eth-goerli.g.alchemy.com/v2/")
anvil == Network("anvil", 31337, "http://localhost:8545")

\* Descriptors a caller of set_networks may pass besides the built-in ones:
\* a local fork of mainnet, which keeps chain id 1 under a name of its own,
\* and a second descriptor named "anvil".
fork == Network("fork", 1, "http://localhost:8546")
anvil_alt == Network("anvil", 1337, "http://localhost:8547")

Digits == <<"0", "1", "2", "3", "4", "5", "6", "7", "8", "9",
            "a", "b", "c", "d", "e", "f">>

RECURSIVE Fmt(_, _)
\* format!("{}", n) for base = 10 and format!("{:x}", n) for base = 16.
Fmt(n, base) ==
  IF n < base THEN Digits[n + 1]
  ELSE Fmt(n \div base, base) \o Digits[(n % base) + 1]

chain_id_hex(chain_id) == "0x" \o Fmt(chain_id, 16)

\* ------------------------------------------------------------- Wallet
DefaultMnemonic == "test test test test test test test test test test test junk"
DefaultDerivationPath == "m/44'/60'/0'/0"

\* Phrases MnemonicBuilder accepts, among those the model uses.
ValidMnemonics == {DefaultMnemonic}
\* Path templates for which "<template>/<idx>" parses as a derivation path.
ValidPaths == {DefaultDerivationPath}

Ok(v) == [ok |-> TRUE, v |-> v]
Err(e) == [ok |-> FALSE, v |-> e]

\* The key MnemonicBuilder derives from a phrase along a full path, kept
\* symbolic: a string naming what it is derived from.
DeriveKey(mnemonic, path) == "key(" \o mnemonic \o "," \o path \o ")"

\* The signer: the derived key, bound to a chain id.
build_signer(mnemonic, derivation_path, idx, chain_id) ==
  LET path == derivation_path \o "/" \o Fmt(idx, 10) IN
  IF mnemonic \notin ValidMnemonics THEN Err("invalid mnemonic")
  ELSE IF derivation_path \notin ValidPaths THEN Err("invalid derivation path")
  ELSE Ok([key |-> DeriveKey(mnemonic, path), chain_id |-> chain_id])

\* ethers' builder binds a fresh signer to chain id 1.
WalletDefault ==
  [mnemonic |-> DefaultMnemonic,
   derivation_path |-> DefaultDerivationPath,
   idx |-> 0,
   signer |-> [key |-> DeriveKey(DefaultMnemonic,
                                  DefaultDerivationPath \o "/" \o Fmt(0, 10)),
               chain_id |-> 1]]

\* to_checksum(signer.address()): a function of the key alone.
checksummed_address(wallet) == "0x:" \o wallet.signer.key

\* A faulty variant of update_chain_id: the signer is derived for the first
\* account, as in Wallet::default, not for the account of the wallet.
update_chain_id_first_account(wallet, chain_id) ==
  LET r == build_signer(wallet.mnemonic, wallet.derivation_path, 0, chain_id) IN
  IF r.ok THEN Ok([wallet EXCEPT !.signer = r.v]) ELSE Err(r.v)

\* pub(self) fn update_chain_id: the signer derived again from the wallet's
\* own mnemonic, path and index, under chain_id.
update_chain_id(wallet, chain_id) ==
  LET r == build_signer(wallet.mnemonic, wallet.derivation_path, wallet.idx, chain_id) IN
  IF r.ok THEN Ok([wallet EXCEPT !.signer = r.v]) ELSE Err(r.v)

\* ----------------------------------------------------------- messages
\* A serde_json value: an array or an object of string members.
JsonArray(elems) ==
  [kind |-> "array", members |-> [i \in 1..Len(elems) |-> [key |-> "", value |-> elems[i]]]]
JsonObject(pairs) ==
  [kind |-> "object",
   members |-> [i \in 1..Len(pairs) |-> [key |-> pairs[i][1], value |-> pairs[i][2]]]]

AccountsChanged(new_address) ==
  [method |-> "accountsChanged", params |-> JsonArray(<<new_address>>)]

ChainChanged(new_network) ==
  [method |-> "chainChanged",
   params |-> JsonObject(<< <<"chainId", chain_id_hex(new_network.chain_id)>>,
                            <<"networkVersion", new_network.name>> >>)]

\* ------------------------------------------------------ session state
\* wallet, current_network, networks, peers, db: the fields of ContextInner.
\*   networks   the HashMap, a function from the names it holds to descriptors
\*   find_first what networks.values().find(..) meets first in this HashMap's
\*              iteration order: for each chain id present, one name with it
\*   peers      the HashMap in its iteration order: a sequence of
\*              [addr, snd], snd the index in chan of the channel it sends to
\*   db         "None" or "Some"
\*   chan       the unbounded channels created so far: what was sent on each
\*              (queue) and whether its receiver is still alive (open)
\* locked     the mutex of Context
\* task       each task's call in progress (its locals), pc "idle" when none
\* pre        per task, the session state when it acquired the guard
\* lin        the session state that running the calls one after another, in
\*            the order the guard was acquired, gives
\* ncalls     calls made so far
VARIABLES wallet, current_network, networks, find_first, peers, db, chan,
          locked, task, pre, lin, ncalls

vars == <<wallet, current_network, networks, find_first, peers, db, chan,
          locked, task, pre, lin, ncalls>>

\* The session state as one value.
St ==
  [wallet |-> wallet, current_network |-> current_network, networks |-> networks,
   find_first |-> find_first, peers |-> peers, db |-> db, chan |-> chan]

ChainIds(nets) == {nets[n].chain_id : n \in DOMAIN nets}

\* The outcomes of iterating a HashMap with these entries: any name of the
\* chain id may come first.
FirstChoices(nets) ==
  {f \in [ChainIds(nets) -> DOMAIN nets] : \A c \in ChainIds(nets) : nets[f[c]].chain_id = c}

NewNetworks == [n \in {"mainnet", "goerli", "anvil"} |->
                  CASE n = "mainnet" -> mainnet
                    [] n = "goerli" -> goerli
                    [] OTHER -> anvil]

\* ContextInner::new()
NewInner ==
  [wallet |-> WalletDefault,
   current_network |-> "mainnet",
   networks |-> NewNetworks,
   find_first |-> [c \in ChainIds(NewNetworks) |->
                     CHOOSE n \in DOMAIN NewNetworks : NewNetworks[n].chain_id = c],
   peers |-> <<>>,
   db |-> "None",
   chan |-> <<>>]

\* ---------------------------------------------------------- broadcast
RECURSIVE SendAll(_, _, _, _)
\* peers.iter().for_each(|(_, sender)| sender.send(..).unwrap()) from the
\* i-th entry on: a send on a channel whose receiver is gone returns Err and
\* the unwrap panics, leaving the entries after it unvisited.
SendAll(ch, ps, i, msg) ==
  IF i > Len(ps) THEN [chan |-> ch, res |-> "ok"]
  ELSE IF ~ch[ps[i].snd].open THEN [chan |-> ch, res |-> "panic"]
  ELSE SendAll([ch EXCEPT ![ps[i].snd].queue = Append(@, msg)], ps, i + 1, msg)

broadcast(s, msg) == SendAll(s.chan, s.peers, 1, msg)

\* ------------------------------------------------------ the operations
NullNetwork == Network("", 0, "")

\* The locals of a call: op and arg, the place in the code (pc), what the
\* call has read so far, whether it has derived a signer, and how it ended.
Frame(op, arg) ==
  [op |-> op, arg |-> arg, pc |-> "call", name |-> "",
   previous_network |-> NullNetwork, new_network |-> NullNetwork,
   derived |-> FALSE, res |-> "none"]

Idle == [Frame("none", "") EXCEPT !.pc = "idle"]

\* The call as it starts: set_current_network(name) at its first statement.
Call(op, arg) ==
  IF op = "set_current_network"
  THEN [Frame(op, arg) EXCEPT !.name = arg, !.pc = "get_previous"]
  ELSE Frame(op, arg)

Return(s, l, res) == [s |-> s, l |-> [l EXCEPT !.pc = "ret", !.res = res]]

set_wallet(s, l) ==
  LET previous_address == checksummed_address(s.wallet)
      s1 == [s EXCEPT !.wallet = l.arg]
      new_address == checksummed_address(s1.wallet)
  IN IF previous_address # new_address
     THEN LET b == broadcast(s1, AccountsChanged(new_address)) IN
          Return([s1 EXCEPT !.chan = b.chan], l, b.res)
     ELSE Return(s1, l, "ok")

\* self.networks.get(&self.current_network).unwrap().clone()
get_current_network(s) ==
  IF s.current_network \in DOMAIN s.networks
  THEN Ok(s.networks[s.current_network])
  ELSE Err("None")

\* A faulty variant of ChainIdChanged: every switch counts as a change.
ChainIdChangedAlways(previous_network, new_network) == TRUE

\* A faulty variant of ChainIdChanged: the descriptors are compared by name.
ChainIdChangedByName(previous_network, new_network) ==
  previous_network.name # new_network.name

\* The chain ids differ: the branch of set_current_network.
ChainIdChanged(previous_network, new_network) ==
  previous_network.chain_id # new_network.chain_id

\* A faulty variant of set_current_network: the message is sent before the
\* signer is derived for the new chain id.
set_current_network_broadcast_first(s, l) ==
  CASE l.pc = "get_previous" ->
         LET r == get_current_network(s) IN
         IF r.ok THEN [s |-> s, l |-> [l EXCEPT !.previous_network = r.v, !.pc = "set_name"]]
         ELSE Return(s, l, "panic")
    [] l.pc = "set_name" ->
         [s |-> [s EXCEPT !.current_network = l.name], l |-> [l EXCEPT !.pc = "get_new"]]
    [] l.pc = "get_new" ->
         LET r == get_current_network(s) IN
         IF r.ok THEN [s |-> s, l |-> [l EXCEPT !.new_network = r.v, !.pc = "compare"]]
         ELSE Return(s, l, "panic")
    [] l.pc = "compare" ->
         IF ChainIdChanged(l.previous_network, l.new_network)
         THEN [s |-> s, l |-> [l EXCEPT !.pc = "broadcast"]]
         ELSE Return(s, l, "ok")
    [] l.pc = "broadcast" ->
         LET b == broadcast(s, ChainChanged(l.new_network)) IN
         IF b.res = "ok" THEN [s |-> [s EXCEPT !.chan = b.chan], l |-> [l EXCEPT !.pc = "derive"]]
         ELSE Return([s EXCEPT !.chan = b.chan], l, b.res)
    [] OTHER ->
         LET w == update_chain_id(s.wallet, l.new_network.chain_id) IN
         IF w.ok THEN Return([s EXCEPT !.wallet = w.v], [l EXCEPT !.derived = TRUE], "ok")
         ELSE Return(s, [l EXCEPT !.derived = TRUE], "panic")

\* set_current_network, statement by statement; l.name is new_current_network.
set_current_network(s, l) ==
  CASE l.pc = "get_previous" ->
         LET r == get_current_network(s) IN
         IF r.ok THEN [s |-> s, l |-> [l EXCEPT !.previous_network = r.v, !.pc = "set_name"]]
         ELSE Return(s, l, "panic")
    [] l.pc = "set_name" ->
         [s |-> [s EXCEPT !.current_network = l.name], l |-> [l EXCEPT !.pc = "get_new"]]
    [] l.pc = "get_new" ->
         LET r == get_current_network(s) IN
         IF r.ok THEN [s |-> s, l |-> [l EXCEPT !.new_network = r.v, !.pc = "compare"]]
         ELSE Return(s, l, "panic")
    [] l.pc = "compare" ->
         IF ChainIdChanged(l.previous_network, l.new_network)
         THEN LET w == update_chain_id(s.wallet, l.new_network.chain_id) IN
              IF w.ok THEN [s |-> [s EXCEPT !.wallet = w.v],
                            l |-> [l EXCEPT !.derived = TRUE, !.pc = "broadcast"]]
              ELSE Return(s, [l EXCEPT !.derived = TRUE], "panic")
         ELSE Return(s, l, "ok")
    [] OTHER ->
         LET b == broadcast(s, ChainChanged(l.new_network)) IN
         Return([s EXCEPT !.chan = b.chan], l, b.res)

\* networks.values().find(|n| n.chain_id == new_chain_id).unwrap(), then the
\* call of set_current_network with the name found.
set_current_network_by_id(s, l) ==
  IF l.arg \in ChainIds(s.networks)
  THEN [s |-> s, l |-> [l EXCEPT !.name = s.networks[s.find_first[l.arg]].name,
                                  !.pc = "get_previous"]]
  ELSE Return(s, l, "panic")

RECURSIVE CollectFirstWins(_, _)
\* A faulty variant of Collect: a name already present keeps its descriptor.
CollectFirstWins(list, i) ==
  IF i = 0 THEN <<>>
  ELSE LET m == CollectFirstWins(list, i - 1)
           n == list[i]
       IN [k \in DOMAIN m \cup {n.name} |-> IF k \in DOMAIN m THEN m[k] ELSE n]

RECURSIVE Collect(_, _)
\* networks.into_iter().map(|n| (n.name.clone(), n)).collect(): the first i
\* descriptors inserted in order, a later one replacing an earlier one of
\* the same name.
Collect(list, i) ==
  IF i = 0 THEN <<>>
  ELSE LET m == Collect(list, i - 1)
           n == list[i]
       IN [k \in DOMAIN m \cup {n.name} |-> IF k = n.name THEN n ELSE m[k]]

\* l.arg is [list, first]: the Vec and the iteration order the new HashMap
\* happens to get.
set_networks(s, l) ==
  Return([s EXCEPT !.networks = Collect(l.arg.list, Len(l.arg.list)),
                   !.find_first = l.arg.first], l, "ok")

WithoutPeer(ps, addr) == SelectSeq(ps, LAMBDA e : e.addr # addr)

InsertAt(seq, pos, e) ==
  LET p == IF pos > Len(seq) + 1 THEN Len(seq) + 1 ELSE pos IN
  SubSeq(seq, 1, p - 1) \o <<e>> \o SubSeq(seq, p, Len(seq))

\* l.arg is [peer, pos]: the address and the place the entry takes in the
\* HashMap's iteration order.  The sender is that of a channel the caller has
\* just created: mpsc::unbounded_channel().
add_peer(s, l) ==
  LET snd == Len(s.chan) + 1
      ch == Append(s.chan, [queue |-> <<>>, open |-> TRUE])
  IN Return([s EXCEPT !.chan = ch,
                      !.peers = InsertAt(WithoutPeer(s.peers, l.arg.peer), l.arg.pos,
                                         [addr |-> l.arg.peer, snd |-> snd])], l, "ok")

remove_peer(s, l) == Return([s EXCEPT !.peers = WithoutPeer(s.peers, l.arg)], l, "ok")

\* l.arg is whether sled::open(path) succeeds.
connect_db(s, l) ==
  IF l.arg THEN Return([s EXCEPT !.db = "Some"], l, "ok") ELSE Return(s, l, "err")

\* One step of the call l on the session state s.
Step(s, l) ==
  CASE l.pc # "call" -> set_current_network(s, l)
    [] l.op = "set_wallet" -> set_wallet(s, l)
    [] l.op = "set_current_network_by_id" -> set_current_network_by_id(s, l)
    [] l.op = "set_networks" -> set_networks(s, l)
    [] l.op = "add_peer" -> add_peer(s, l)
    [] l.op = "remove_peer" -> remove_peer(s, l)
    [] OTHER -> connect_db(s, l)

RECURSIVE Run(_, _)
\* The whole call.
\* The step is bound as the member of a set, which is evaluated once.
Run(s, l) ==
  IF l.pc = "ret" THEN [s |-> s, l |-> l]
  ELSE CHOOSE r \in {Run(n.s, n.l) : n \in {Step(s, l)}} : TRUE

\* ------------------------------------------------------ serialization
\* serde writes a struct as a map: a sequence of <<key, value>>.
None == [some |-> FALSE, v |-> ""]
Some(v) == [some |-> TRUE, v |-> v]

\* A faulty variant of SerializeWallet: the fields are written under their Rust names.
SerializeWalletSnakeCase(w) ==
  << <<"mnemonic", w.mnemonic>>,
     <<"derivation_path", w.derivation_path>>,
     <<"idx", w.idx>> >>

\* #[derive(Serialize)] #[serde(rename_all = "camelCase")], signer skipped.
SerializeWallet(w) ==
  << <<"mnemonic", w.mnemonic>>,
     <<"derivationPath", w.derivation_path>>,
     <<"idx", w.idx>> >>

\* The keys enum Field accepts (rename_all = "camelCase").
WalletFields == {"mnemonic", "derivationPath", "idx"}

RECURSIVE visit_map(_, _, _)
\* The loop of WalletVisitor::visit_map from the i-th entry on: acc holds
\* mnemonic, derivation_path and idx as read so far; a key that is no Field
\* is an error.
visit_map(map, i, acc) ==
  IF i > Len(map) THEN Ok(acc)
  ELSE LET key == map[i][1]
           value == map[i][2]
       IN IF key \notin WalletFields THEN Err("unknown field")
          ELSE visit_map(map, i + 1,
                 CASE key = "mnemonic" -> [acc EXCEPT !.mnemonic = Some(value)]
                   [] key = "derivationPath" -> [acc EXCEPT !.derivation_path = Some(value)]
                   [] OTHER -> [acc EXCEPT !.idx = Some(value)])

\* impl Deserialize for Wallet: the signer is built for chain id 1.
DeserializeWallet(map) ==
  LET r == visit_map(map, 1, [mnemonic |-> None, derivation_path |-> None, idx |-> None]) IN
  IF ~r.ok THEN r
  ELSE IF ~r.v.mnemonic.some THEN Err("missing field mnemonic")
  ELSE IF ~r.v.derivation_path.some THEN Err("missing field derivation_path")
  ELSE IF ~r.v.idx.some THEN Err("missing field idx")
  ELSE LET signer == build_signer(r.v.mnemonic.v, r.v.derivation_path.v, r.v.idx.v, 1) IN
       IF ~signer.ok THEN Err("could not build signer")
       ELSE Ok([mnemonic |-> r.v.mnemonic.v,
                derivation_path |-> r.v.derivation_path.v,
                idx |-> r.v.idx.v,
                signer |-> signer.v])

\* #[derive(Serialize)] for Network: every field under its own name.
SerializeNetwork(n) ==
  << <<"name", n.name>>, <<"chain_id", n.chain_id>>, <<"rpc_url", n.rpc_url>>,
     <<"currency", n.currency>>, <<"decimals", n.decimals>> >>

\* A derived Deserialize reads a field by its name; it is missing when no
\* entry has that key.
GetField(map, key) ==
  IF \E i \in 1..Len(map) : map[i][1] = key
  THEN Some(map[CHOOSE i \in 1..Len(map) : map[i][1] = key][2])
  ELSE None

DeserializeNetwork(map) ==
  LET name == GetField(map, "name")
      chain_id == GetField(map, "chain_id")
      rpc_url == GetField(map, "rpc_url")
      currency == GetField(map, "currency")
      decimals == GetField(map, "decimals")
  IN IF name.some /\ chain_id.some /\ rpc_url.some /\ currency.some /\ decimals.some
     THEN Ok([name |-> name.v, chain_id |-> chain_id.v, rpc_url |-> rpc_url.v,
              currency |-> currency.v, decimals |-> decimals.v])
     ELSE Err("missing field")

\* #[derive(Serialize)] for ContextInner: peers and db are #[serde(skip)].
SerializeInner(s) ==
  << <<"wallet", SerializeWallet(s.wallet)>>,
     <<"current_network", s.current_network>>,
     <<"networks", [n \in DOMAIN s.networks |-> SerializeNetwork(s.networks[n])]>> >>

\* #[derive(Deserialize)] for ContextInner: the skipped fields take their
\* Default; first is the iteration order the rebuilt HashMap happens to get.
\* No channel of the process that wrote the map exists in the one reading it.
DeserializeInner(map, first) ==
  LET w == GetField(map, "wallet")
      c == GetField(map, "current_network")
      n == GetField(map, "networks")
  IN IF ~(w.some /\ c.some /\ n.some) THEN Err("missing field")
     ELSE LET dw == DeserializeWallet(w.v)
              dn == [k \in DOMAIN n.v |-> DeserializeNetwork(n.v[k])]
          IN IF ~dw.ok THEN dw
             ELSE IF \E k \in DOMAIN dn : ~dn[k].ok THEN Err("missing field")
             ELSE Ok([wallet |-> dw.v,
                      current_network |-> c.v,
                      networks |-> [k \in DOMAIN dn |-> dn[k].v],
                      find_first |-> first,
                      peers |-> <<>>,
                      db |-> "None",
                      chan |-> <<>>])

\* ------------------------------------------------------------- inputs
\* Wallets a caller passes to set_wallet.  Wallet's fields are private: a
\* caller gets one by deserializing what was stored of it.
WalletFiles ==
  {<< <<"mnemonic", DefaultMnemonic>>,
      <<"derivationPath", DefaultDerivationPath>>,
      <<"idx", i>> >> : i \in {0, 1}}

WalletInputs == {DeserializeWallet(f).v : f \in {g \in WalletFiles : DeserializeWallet(g).ok}}

NetworkNames == {"mainnet", "goerli", "anvil", "fork", "does-not-exist"}
RequestedChainIds == {1, 31337, 10}
NetworkLists ==
  {<<mainnet, anvil>>, <<mainnet, goerli, anvil, fork>>, <<anvil, anvil_alt, mainnet>>}

\* ------------------------------------------------------------ actions
Init ==
  /\ wallet = NewInner.wallet
  /\ current_network = NewInner.current_network
  /\ networks = NewInner.networks
  /\ find_first = NewInner.find_first
  /\ peers = NewInner.peers
  /\ db = NewInner.db
  /\ chan = NewInner.chan
  /\ locked = FALSE
  /\ task = [t \in Tasks |-> Idle]
  /\ pre = [t \in Tasks |-> NewInner]
  /\ lin = NewInner
  /\ ncalls = 0

\* A faulty variant of MutexFree: the lock is handed out whether or not it is held.
MutexUnchecked == TRUE

\* Context::lock resolves for a task when the mutex is free.
MutexFree == ~locked

Install(s) ==
  /\ wallet' = s.wallet
  /\ current_network' = s.current_network
  /\ networks' = s.networks
  /\ find_first' = s.find_first
  /\ peers' = s.peers
  /\ db' = s.db
  /\ chan' = s.chan

\* Task t gets the guard and starts the call l.
Acquire(t, l) ==
  /\ ncalls < MaxCalls
  /\ task[t].pc = "idle"
  /\ MutexFree
  /\ locked' = TRUE
  /\ task' = [task EXCEPT ![t] = l]
  /\ pre' = [pre EXCEPT ![t] = St]
  /\ lin' = Run(lin, l).s
  /\ ncalls' = ncalls + 1
  /\ UNCHANGED <<wallet, current_network, networks, find_first, peers, db, chan>>

SetWallet(t) == \E w \in WalletInputs : Acquire(t, Call("set_wallet", w))

SetCurrentNetwork(t) ==
  \E name \in NetworkNames : Acquire(t, Call("set_current_network", name))

SetCurrentNetworkById(t) ==
  \E id \in RequestedChainIds : Acquire(t, Call("set_current_network_by_id", id))

SetNetworks(t) ==
  \E list \in NetworkLists :
    \E nets \in {Collect(list, Len(list))} :
      \E first \in FirstChoices(nets) :
        Acquire(t, Call("set_networks", [list |-> list, first |-> first]))

AddPeer(t) ==
  \E peer \in Addrs :
    \E pos \in 1..(Len(WithoutPeer(peers, peer)) + 1) :
      Acquire(t, Call("add_peer", [peer |-> peer, pos |-> pos]))

RemovePeer(t) == \E peer \in Addrs : Acquire(t, Call("remove_peer", peer))

ConnectDb(t) == \E opened \in BOOLEAN : Acquire(t, Call("connect_db", opened))

\* The next step of the call task t is in.
Exec(t) ==
  /\ task[t].pc \notin {"idle", "ret", "done"}
  /\ LET n == Step(St, task[t]) IN
       /\ Install(n.s)
       /\ task' = [task EXCEPT ![t] = n.l]
  /\ UNCHANGED <<locked, pre, lin, ncalls>>

\* The call has returned or panicked: the guard is dropped.
Unlock(t) ==
  /\ task[t].pc = "ret"
  /\ task' = [task EXCEPT ![t] = Idle]
  /\ pre' = [pre EXCEPT ![t] = NewInner]
  /\ locked' = FALSE
  /\ UNCHANGED <<wallet, current_network, networks, find_first, peers, db, chan, lin, ncalls>>

\* A peer's connection ends: the receiver of its channel is dropped.  A send
\* reads the channel only at the moment it sends, so the model lets a
\* receiver go between calls.
CloseChannel ==
  /\ ~locked
  /\ \E c \in DOMAIN chan :
       /\ chan[c].open
       /\ chan' = [chan EXCEPT ![c].open = FALSE]
       /\ lin' = IF c \in DOMAIN lin.chan THEN [lin EXCEPT !.chan[c].open = FALSE] ELSE lin
  /\ UNCHANGED <<wallet, current_network, networks, find_first, peers, db, locked, task,
                 pre, ncalls>>

\* The process stops and starts again from what it persisted: the session
\* state is the deserialization of its serialization.
Reload ==
  /\ ncalls < MaxCalls
  /\ ~locked
  /\ \E first \in FirstChoices(networks) :
       LET r == DeserializeInner(SerializeInner(St), first) IN
       /\ r.ok
       /\ Install(r.v)
       /\ lin' = r.v
  /\ ncalls' = ncalls + 1
  /\ UNCHANGED <<locked, task, pre>>

Next ==
  \/ \E t \in Tasks : SetWallet(t)
  \/ \E t \in Tasks : SetCurrentNetwork(t)
  \/ \E t \in Tasks : SetCurrentNetworkById(t)
  \/ \E t \in Tasks : SetNetworks(t)
  \/ \E t \in Tasks : AddPeer(t)
  \/ \E t \in Tasks : RemovePeer(t)
  \/ \E t \in Tasks : ConnectDb(t)
  \/ \E t \in Tasks : Exec(t)
  \/ \E t \in Tasks : Unlock(t)
  \/ CloseChannel
  \/ Reload

Spec == Init /\ [][Next]_vars

\* ------------------------------------- N tasks switching the network
\* The calls in progress or finished that switch the network by name.
Requested == {task[u].name : u \in {v \in Tasks : task[v].op = "set_current_network"}}

\* Task t locks the context and calls set_current_network once, with a
\* name of the descriptor set that no other task asks for.
Switch(t) ==
  \E name \in DOMAIN networks \ Requested :
    Acquire(t, Call("set_current_network", name))

\* A task that registers a peer drops the guard and goes on.
UnlockPeer(t) == task[t].op = "add_peer" /\ Unlock(t)

\* The switch of task t is over: it drops the guard and makes no other call.
Finish(t) ==
  /\ task[t].pc = "ret"
  /\ task[t].op = "set_current_network"
  /\ task' = [task EXCEPT ![t].pc = "done"]
  /\ pre' = [pre EXCEPT ![t] = NewInner]
  /\ locked' = FALSE
  /\ UNCHANGED <<wallet, current_network, networks, find_first, peers, db, chan, lin, ncalls>>

NextSwitch ==
  \/ \E t \in Tasks : AddPeer(t)
  \/ \E t \in Tasks : UnlockPeer(t)
  \/ \E t \in Tasks : Switch(t)
  \/ \E t \in Tasks : Exec(t)
  \/ \E t \in Tasks : Finish(t)
  \/ CloseChannel

SpecSwitch == Init /\ [][NextSwitch]_vars

\* ------------------------- peers connect, then the network is switched
\* A peer registers before any other call is made: every call so far has
\* created a channel.
Connect(t) == ncalls = Len(chan) /\ AddPeer(t)

\* set_current_network with a name of the descriptor set.
SwitchTo(t) ==
  \E name \in DOMAIN networks : Acquire(t, Call("set_current_network", name))

\* set_current_network_by_id with a chain id of the descriptor set.
SwitchToId(t) ==
  \E id \in ChainIds(networks) : Acquire(t, Call("set_current_network_by_id", id))

NextSync ==
  \/ \E t \in Tasks : Connect(t)
  \/ \E t \in Tasks : SwitchTo(t)
  \/ \E t \in Tasks : SwitchToId(t)
  \/ \E t \in Tasks : Exec(t)
  \/ \E t \in Tasks : Unlock(t)
  \/ CloseChannel

SpecSync == Init /\ [][NextSync]_vars

\* --------------------- tasks that make a last transition and are done
\* The tasks that have yet to finish.
Pending == {u \in Tasks : task[u].pc # "done"}

\* A peer registers while calls are left for every pending task.
Prepare(t) == ncalls + 1 + Cardinality(Pending) <= MaxCalls /\ AddPeer(t)

\* Task t locks the context and makes a transition with valid arguments.
Transition(t) == SetWallet(t) \/ SwitchTo(t) \/ SwitchToId(t) \/ SetNetworks(t)

\* The call of t was not its last: it drops the guard and goes on, which
\* the bound on calls allows while calls are left for every pending task.
UnlockEarly(t) == ncalls + Cardinality(Pending) <= MaxCalls /\ Unlock(t)

\* The last transition of t is over: it drops the guard and is done.
Complete(t) ==
  /\ task[t].pc = "ret"
  /\ task[t].op # "add_peer"
  /\ task' = [task EXCEPT ![t].pc = "done"]
  /\ pre' = [pre EXCEPT ![t] = NewInner]
  /\ locked' = FALSE
  /\ UNCHANGED <<wallet, current_network, networks, find_first, peers, db, chan, lin, ncalls>>

NextLive ==
  \/ \E t \in Tasks : Prepare(t)
  \/ \E t \in Tasks : SetWallet(t)
  \/ \E t \in Tasks : SwitchTo(t)
  \/ \E t \in Tasks : SwitchToId(t)
  \/ \E t \in Tasks : SetNetworks(t)
  \/ \E t \in Tasks : Exec(t)
  \/ \E t \in Tasks : UnlockEarly(t)
  \/ \E t \in Tasks : Complete(t)

\* Every task is polled again and again: one that can take the free mutex,
\* take the next step of its call or drop its guard does so in the end.
\* No channel is closed.
SpecLive ==
  /\ Init
  /\ [][NextLive]_vars
  /\ \A t \in Tasks :
       WF_vars(Transition(t) \/ Exec(t) \/ UnlockEarly(t) \/ Complete(t))

\* ============================================================== claims
Returned(t, op) == task[t].pc = "ret" /\ task[t].op = op

\* The channels the registered peers send to.
Registered == {peers[i].snd : i \in 1..Len(peers)}

\* During the call of task t, exactly msgs were enqueued on channel c.
Enqueued(t, c, msgs) ==
  /\ c \in DOMAIN pre[t].chan
  /\ chan[c].queue = pre[t].chan[c].queue \o msgs

\* No task is inside a call.
Quiescent == \A t \in Tasks : task[t].pc \in {"idle", "done"}

\* set_current_network(name) was called by t with name in the descriptor
\* set and the active name resolving before the call.
SwitchedByName(t) ==
  /\ Returned(t, "set_current_network")
  /\ task[t].arg \in DOMAIN pre[t].networks
  /\ pre[t].current_network \in DOMAIN pre[t].networks

PreviousChainId(t) == pre[t].networks[pre[t].current_network].chain_id
RequestedChainId(t) == pre[t].networks[task[t].arg].chain_id

\* The registered channels whose receiver is alive: those a message can be
\* enqueued on.
Live == {c \in Registered : chan[c].open}

\* C1: set_wallet(w) enqueues nothing when the checksummed address of w is
\* that of the previous wallet, and otherwise enqueues exactly one
\* accountsChanged message, whose params is the list of the new address
\* alone, on every registered peer channel (every one that can take it).
C1_SetWalletBroadcast ==
  \A t \in Tasks :
    Returned(t, "set_wallet") =>
      LET previous_address == checksummed_address(pre[t].wallet)
          new_address == checksummed_address(task[t].arg)
          msg == [method |-> "accountsChanged",
                  params |-> [kind |-> "array",
                              members |-> <<[key |-> "", value |-> new_address]>>]]
      IN \A c \in DOMAIN chan :
           Enqueued(t, c, IF previous_address # new_address /\ c \in Live
                          THEN <<msg>> ELSE <<>>)

\* C2: set_current_network(name) to a descriptor with the chain id of the
\* previous one enqueues no message, derives no signer and leaves the signer
\* as it was; only the active network name changes.
C2_SameChainIdSilent ==
  \A t \in Tasks :
    (SwitchedByName(t) /\ PreviousChainId(t) = RequestedChainId(t)) =>
      /\ task[t].res = "ok"
      /\ \A c \in DOMAIN chan : Enqueued(t, c, <<>>)
      /\ ~task[t].derived
      /\ wallet = pre[t].wallet
      /\ current_network = task[t].arg
      /\ St = [pre[t] EXCEPT !.current_network = task[t].arg]

C2_Witness ==
  \E t \in Tasks :
    /\ SwitchedByName(t)
    /\ PreviousChainId(t) = RequestedChainId(t)
    /\ task[t].arg # pre[t].current_network
    /\ \E c \in Registered : chan[c].open

\* C3: set_current_network(name) to a descriptor of another chain id
\* enqueues exactly one chainChanged message on every registered peer
\* channel (every one that can take it), with chainId the new chain id in lowercase hexadecimal after 0x
\* and networkVersion the new name, and leaves the signer derived from the
\* same mnemonic, path and index under the new chain id.
C3_ChainChangedBroadcast ==
  \A t \in Tasks :
    (SwitchedByName(t) /\ PreviousChainId(t) # RequestedChainId(t)) =>
      LET msg == [method |-> "chainChanged",
                  params |-> [kind |-> "object",
                              members |-> <<[key |-> "chainId",
                                             value |-> "0x" \o Fmt(RequestedChainId(t), 16)],
                                            [key |-> "networkVersion",
                                             value |-> task[t].arg]>>]]
      IN /\ \A c \in DOMAIN chan :
              Enqueued(t, c, IF c \in Live THEN <<msg>> ELSE <<>>)
         /\ wallet.signer = build_signer(pre[t].wallet.mnemonic,
                                         pre[t].wallet.derivation_path,
                                         pre[t].wallet.idx, RequestedChainId(t)).v
         /\ (RequestedChainId(t) = 31337 =>
               msg.params.members[1].value = "0x7a69")

\* C4: set_current_network(name) with a name that is no key of the
\* descriptor set fails with NetworkNotFound and changes nothing.
C4_UnknownNameRejected ==
  \A t \in Tasks :
    (Returned(t, "set_current_network") /\ task[t].arg \notin DOMAIN pre[t].networks) =>
      /\ task[t].res = "NetworkNotFound"
      /\ St = pre[t]

\* C5: set_current_network_by_id(c) ends with an active descriptor of chain
\* id c when some descriptor has it, and otherwise fails with
\* NetworkNotFound and changes nothing.
C5_ByIdSelectsOrRejects ==
  \A t \in Tasks :
    Returned(t, "set_current_network_by_id") =>
      IF task[t].arg \in ChainIds(pre[t].networks)
      THEN /\ current_network \in DOMAIN networks
           /\ networks[current_network].chain_id = task[t].arg
      ELSE /\ task[t].res = "NetworkNotFound"
           /\ St = pre[t]

\* C6: when N tasks each lock the context and switch to a distinct valid
\* name, the session state and the messages on every channel are those of
\* running the calls one after another in the order the guard was acquired,
\* no channel ever holds part of a call's messages, and the final active
\* network is one of the names asked for.
C6_SwitchesSerializable ==
  /\ Quiescent => St = lin
  /\ \A c \in DOMAIN chan :
       \/ chan[c].queue = lin.chan[c].queue
       \/ \E t \in Tasks : task[t].pc \notin {"idle", "done"} /\ Enqueued(t, c, <<>>)
  /\ (\A t \in Tasks : task[t].pc = "done") => current_network \in Requested

C6_Witness ==
  /\ \A t \in Tasks : task[t].pc = "done"
  /\ \E c \in Registered : chan[c].open /\ Len(chan[c].queue) = NumTasks

\* C7: the active network name is a key of the descriptor set after any
\* sequence of calls.
C7_ActiveNameResolves == Quiescent => current_network \in DOMAIN networks

\* C8: between calls and after a reload, the signer is bound to the chain id
\* of the descriptor the active name resolves to.
C8_SignerMatchesActiveChain ==
  (Quiescent /\ current_network \in DOMAIN networks) =>
    wallet.signer.chain_id = networks[current_network].chain_id

\* A call of set_wallet or set_current_network that reached its broadcast.
Broadcasting(t) ==
  \/ /\ Returned(t, "set_wallet")
     /\ checksummed_address(pre[t].wallet) # checksummed_address(task[t].arg)
  \/ /\ SwitchedByName(t)
     /\ PreviousChainId(t) # RequestedChainId(t)

\* C9: a broadcast with a closed channel among those of several registered
\* peers still enqueues the message on every other registered channel, and
\* the call that broadcast returns normally with its change committed.
C9_ClosedPeerIsolated ==
  \A t \in Tasks :
    (Broadcasting(t) /\ Len(peers) > 1 /\ \E c \in Registered : ~chan[c].open) =>
      /\ task[t].res = "ok"
      /\ \A c \in Registered :
           chan[c].open => Len(chan[c].queue) = Len(pre[t].chan[c].queue) + 1

\* The session state read back from what SerializeInner writes of it.
Reloaded == DeserializeInner(SerializeInner(St), find_first)

\* C10: what is persisted of any session state deserializes to a wallet of
\* the same checksummed address, also once its signer is derived again under
\* the active chain id, with the same active name and descriptor set, no
\* peer and no storage handle.
C10_PersistRoundTrip ==
  LET r == Reloaded IN
  /\ r.ok
  /\ checksummed_address(r.v.wallet) = checksummed_address(wallet)
  /\ \A c \in ChainIds(networks) :
       LET w == update_chain_id(r.v.wallet, c) IN
       w.ok /\ checksummed_address(w.v) = checksummed_address(wallet)
  /\ r.v.current_network = current_network
  /\ r.v.networks = networks
  /\ r.v.peers = <<>>
  /\ r.v.db = "None"

C10_Witness ==
  /\ wallet.signer.chain_id # 1
  /\ peers # <<>>
  /\ db = "Some"

\* The tasks holding a guard: those inside a call, up to its drop.
Holders == {t \in Tasks : task[t].pc \notin {"idle", "done"}}

\* The fields of ContextInner and the channels its senders feed.
Session == <<wallet, current_network, networks, find_first, peers, db, chan>>

\* C11: at most one task holds the guard of the context at any time, the
\* mutex is held whenever a task is inside a call, and every step that reads
\* the session state into a call's locals or changes it is a step of the
\* one task holding the guard (a peer's receiver going away and a restart of
\* the process are no accesses through the context).
C11_MutualExclusion ==
  /\ [](Cardinality(Holders) <= 1 /\ (Holders # {} => locked))
  /\ [][\A t \in Tasks :
          (task[t].pc \notin {"idle", "ret", "done"} /\ task'[t] # task[t]) =>
            /\ locked /\ Holders = {t}
            /\ \A u \in Tasks \ {t} : task'[u] = task[u]]_vars
  /\ [][(Session' # Session /\ ncalls' = ncalls /\ ~(\E c \in DOMAIN chan : chan'[c].open # chan[c].open)) =>
          \E t \in Tasks : Holders = {t} /\ locked /\ task'[t] # task[t]]_vars

C11_Witness ==
  /\ ncalls < MaxCalls
  /\ \E t, u \in Tasks :
       /\ t # u
       /\ task[t].pc \in {"set_name", "get_new", "compare", "broadcast"}
       /\ task[u].pc = "idle"
       /\ locked
       /\ St # pre[t]

\* The member of a message's params under a key.
Param(msg, key) ==
  LET i == CHOOSE j \in DOMAIN msg.params.members : msg.params.members[j].key = key
  IN msg.params.members[i].value

\* C12: whenever a chainChanged message is enqueued on a peer channel, the
\* signer was bound to the message's chain id before that step, and in the
\* state with the message enqueued the active network name is the message's
\* networkVersion, the descriptor it resolves to has the message's chainId
\* and the signer is bound to that chain id.
C12_DerivedBeforeChainChanged ==
  [][\A c \in DOMAIN chan \cap DOMAIN chan' :
       Len(chan'[c].queue) > Len(chan[c].queue) =>
         LET msg == chan'[c].queue[Len(chan'[c].queue)] IN
         msg.method = "chainChanged" =>
           /\ current_network' = Param(msg, "networkVersion")
           /\ current_network' \in DOMAIN networks'
           /\ chain_id_hex(networks'[current_network'].chain_id) = Param(msg, "chainId")
           /\ wallet'.signer.chain_id = networks'[current_network'].chain_id
           /\ wallet.signer.chain_id = networks'[current_network'].chain_id
           /\ \E t \in Tasks : task[t].pc = "broadcast" /\ task[t].derived]_vars

\* A switch to another chain id has sent its message to a peer.
C12_Witness ==
  \E t \in Tasks :
    /\ Returned(t, "set_current_network") \/ Returned(t, "set_current_network_by_id")
    /\ task[t].derived
    /\ task[t].res = "ok"
    /\ \E c \in Live : Len(chan[c].queue) > Len(pre[t].chan[c].queue)
    /\ wallet.signer.chain_id # pre[t].wallet.signer.chain_id

\* q is an initial part of r.
IsPrefix(q, r) == Len(q) <= Len(r) /\ SubSeq(r, 1, Len(q)) = q

\* C13: the messages on each peer channel are, in order, those that the
\* calls made so far enqueue when run one after another in the order the
\* guard was acquired: always an initial part of them, all of them when no
\* call is in progress, and a step only ever appends to a channel.
C13_ChannelOrder ==
  /\ [](\A c \in DOMAIN chan :
          /\ c \in DOMAIN lin.chan \/ chan[c].queue = <<>>
          /\ c \in DOMAIN lin.chan => IsPrefix(chan[c].queue, lin.chan[c].queue)
          /\ Quiescent => (c \in DOMAIN lin.chan /\ chan[c].queue = lin.chan[c].queue))
  /\ [][\A c \in DOMAIN chan \cap DOMAIN chan' :
          IsPrefix(chan[c].queue, chan'[c].queue)]_vars

\* A registered peer has received the messages of two transitions.
C13_Witness ==
  /\ Quiescent
  /\ \E c \in Live :
       /\ Len(chan[c].queue) >= 2
       /\ chan[c].queue[1] # chan[c].queue[2]

\* C14: set_networks(list) leaves as descriptor set exactly the names of
\* list, each resolving to the last descriptor of that name in list, returns
\* normally, enqueues nothing and leaves the active network name, the wallet
\* with its signer, the peer registry, the channels and the storage handle
\* as they were, whatever the active name resolves to afterwards.
C14_SetNetworksFrame ==
  \A t \in Tasks :
    Returned(t, "set_networks") =>
      LET list == task[t].arg.list IN
      /\ task[t].res = "ok"
      /\ DOMAIN networks = {list[i].name : i \in 1..Len(list)}
      /\ \A i \in 1..Len(list) :
           (\A j \in (i + 1)..Len(list) : list[j].name # list[i].name) =>
             networks[list[i].name] = list[i]
      /\ current_network = pre[t].current_network
      /\ wallet = pre[t].wallet
      /\ peers = pre[t].peers
      /\ chan = pre[t].chan
      /\ db = pre[t].db

\* set_networks was given a list naming a descriptor twice, under which the
\* active name now resolves to another chain id, with a peer registered.
C14_Witness ==
  \E t \in Tasks :
    /\ Returned(t, "set_networks")
    /\ \E i, j \in 1..Len(task[t].arg.list) :
         i < j /\ task[t].arg.list[i].name = task[t].arg.list[j].name
    /\ current_network \in DOMAIN networks
    /\ networks[current_network].chain_id # pre[t].networks[current_network].chain_id
    /\ Live # {}

\* C15: a call of set_current_network_by_id(c) with c in the descriptor set
\* ends with the same active network name and the same messages on every
\* channel as the call run from any session state with the same descriptor
\* set, active name, wallet and peers, whatever order its HashMap iterates in.
C15_ByIdDeterministic ==
  \A t \in Tasks :
    (Returned(t, "set_current_network_by_id") /\ task[t].arg \in ChainIds(pre[t].networks)) =>
      \A first \in FirstChoices(pre[t].networks) :
        LET other == Run([pre[t] EXCEPT !.find_first = first],
                         Call("set_current_network_by_id", task[t].arg))
        IN /\ other.s.current_network = current_network
           /\ other.s.chan = chan

\* A call of set_current_network or set_current_network_by_id by t is over.
Switched(t) ==
  Returned(t, "set_current_network") \/ Returned(t, "set_current_network_by_id")

\* C16: after any call of set_current_network or set_current_network_by_id,
\* however it ended, the wallet's mnemonic, derivation path and index, the
\* descriptor set and the peer registry are as before the call, the
\* checksummed address is the same, and no accountsChanged message was
\* enqueued on any channel.
C16_SwitchKeepsWallet ==
  \A t \in Tasks :
    Switched(t) =>
      /\ wallet.mnemonic = pre[t].wallet.mnemonic
      /\ wallet.derivation_path = pre[t].wallet.derivation_path
      /\ wallet.idx = pre[t].wallet.idx
      /\ networks = pre[t].networks
      /\ peers = pre[t].peers
      /\ checksummed_address(wallet) = checksummed_address(pre[t].wallet)
      /\ DOMAIN chan = DOMAIN pre[t].chan
      /\ \A c \in DOMAIN chan :
           /\ IsPrefix(pre[t].chan[c].queue, chan[c].queue)
           /\ \A i \in (Len(pre[t].chan[c].queue) + 1)..Len(chan[c].queue) :
                chan[c].queue[i].method # "accountsChanged"

\* A switch has derived the signer of a wallet that is not the first
\* account for another chain id.
C16_Witness ==
  \E t \in Tasks :
    /\ Switched(t)
    /\ task[t].derived
    /\ wallet.idx # 0
    /\ wallet.signer.chain_id # pre[t].wallet.signer.chain_id

\* C17: a call that broadcasts enqueues its message on a channel if and
\* only if a peer registered when the call ran sends to it (and it can take
\* the message); add_peer under an address leaves that address with the new
\* channel alone, so a channel it replaced gets nothing later.
C17_BroadcastReachesRegistered ==
  \A t \in Tasks :
    /\ Broadcasting(t) =>
         \A c \in DOMAIN chan :
           (Len(chan[c].queue) = Len(pre[t].chan[c].queue) + 1) <=> c \in Live
    /\ Returned(t, "add_peer") =>
         /\ Cardinality({i \in 1..Len(peers) : peers[i].addr = task[t].arg.peer}) = 1
         /\ \A i \in 1..Len(peers) :
              peers[i].addr = task[t].arg.peer => peers[i].snd = Len(chan)
         /\ \A i \in 1..Len(pre[t].peers) : pre[t].peers[i].addr = task[t].arg.peer =>
              pre[t].peers[i].snd \notin Registered

\* C18: with the descriptor set of a new context, peers registered before
\* any switch and only valid switches by name or by chain id made, a
\* registered peer whose channel is open holds as its last message a
\* chainChanged with the chain id of the active descriptor in hexadecimal,
\* or holds no message while the active chain id is that of the start.
C18_PeerInSync ==
  Quiescent =>
    \A c \in Live :
      LET q == chan[c].queue
          active == networks[current_network].chain_id
      IN IF q = <<>>
         THEN active = NewInner.networks[NewInner.current_network].chain_id
         ELSE /\ q[Len(q)].method = "chainChanged"
              /\ Param(q[Len(q)], "chainId") = chain_id_hex(active)

\* The session state after the call of task t is made once more.
Again(t) == Run(St, Call(task[t].op, task[t].arg))

\* C19: when set_current_network(name) with a name of the descriptor set,
\* or set_wallet(w), has been called, the same call made again next leaves
\* the session state as the first call left it and enqueues nothing.
C19_Idempotent ==
  \A t \in Tasks :
    /\ (Returned(t, "set_current_network") /\ task[t].arg \in DOMAIN pre[t].networks) =>
         /\ Again(t).s = St
         /\ \A c \in DOMAIN chan : Again(t).s.chan[c].queue = chan[c].queue
    /\ Returned(t, "set_wallet") =>
         /\ Again(t).s = St
         /\ \A c \in DOMAIN chan : Again(t).s.chan[c].queue = chan[c].queue

\* A first call that changed the state and sent its message to a peer.
C19_Witness ==
  \E t \in Tasks :
    /\ Returned(t, "set_current_network")
    /\ task[t].arg \in DOMAIN pre[t].networks
    /\ task[t].res = "ok"
    /\ task[t].derived
    /\ current_network # pre[t].current_network
    /\ \E c \in Live : Len(chan[c].queue) = Len(pre[t].chan[c].queue) + 1

\* C20: with every channel open and every call made with valid arguments,
\* each task in the end has acquired the guard, has made its transition,
\* which returned normally, and has dropped the guard, and the mutex stays
\* free from then on.
C20_AllComplete ==
  <>[](/\ \A t \in Tasks : task[t].pc = "done" /\ task[t].res = "ok"
       /\ ~locked)

====
